---------------------------- MODULE Spec2Model ----------------------------
(***************************************************************************)
(* A model of the trading use-case layer: the MT5Gateway adapter           *)
(* (src/mt5_adapter.py), the retcode normalizer (src/util.py), the         *)
(* TradingService (src/app/services/trading_service.py) and the            *)
(* persistence recorder (src/app/services/base.py, src/config/db.py,       *)
(* src/db_models.py).                                                      *)
(*                                                                         *)
(* Conventions.  An Optional[T] value is a sequence of length 0 (None) or  *)
(* 1 (the value).  Prices and distances are fixed-point integers counting  *)
(* units of 10^-MaxDigits.  A raised exception is a record [cls, msg].     *)
(* The terminal (module MetaTrader5) is the environment: what it answers   *)
(* to one call is an input of the action that models the call.             *)
(***************************************************************************)
EXTENDS Integers, Sequences, FiniteSets, TLC

VARIABLES
    RETCODES,       \* util.RETCODES: retcode -> label, built at import
    initialized,    \* MT5Gateway._initialized
    orders,         \* table "orders": sequence of OrderRow
    deals,          \* table "deals": sequence of DealRow
    snaps,          \* table "positions_snapshots": sequence of PositionSnapRow
    positions,      \* terminal: the open positions
    pendings,       \* terminal: the pending orders
    nextTicket,     \* terminal: the next ticket it assigns
    mt5,            \* terminal session: whether the terminal is attached, and
                    \* history: initialize calls that succeeded, mt5.shutdown
                    \* invocations
    last,           \* the last call: operation, inputs, requests sent, outcome,
                    \* and what was done to the recorder's sessions
    nCalls,         \* history: number of calls made
    nGot            \* history: number of OrderResults the Service obtained

vars == <<RETCODES, initialized, orders, deals, snaps, positions, pendings,
          nextTicket, mt5, last, nCalls, nGot>>

---------------------------------------------------------------------------
(* Bounds of the model. *)

\* prices are integers counting units of 10^-MaxDigits; digits range over 0..MaxDigits
MaxDigits == 2
\* number of Service calls in one behaviour
MaxCalls == 2
\* number of initialize / shutdown calls in one behaviour
MaxLifeCalls == 4

---------------------------------------------------------------------------
(* Optional values and Python truthiness. *)

None == <<>>
Some(v) == <<v>>
\* bool(x) of an Optional number: None and 0 are falsy
Truthy(o) == o # None /\ o[1] # 0
\* the Python expression (o or d)
OrElse(o, d) == IF Truthy(o) THEN o[1] ELSE d

RECURSIVE Pow10(_)
Pow10(n) == IF n = 0 THEN 1 ELSE 10 * Pow10(n - 1)

\* round(x, digits) on a fixed-point x: to the nearest multiple of
\* 10^(MaxDigits - digits).  A decimal tie is sent to the even multiple; on
\* binary floats Python decides such a tie by the float's exact value, so the
\* inputs below hold no tie.
round(x, digits) ==
    LET step == Pow10(MaxDigits - digits)
        q == x \div step
        r == x % step
    IN  IF 2 * r < step THEN q * step
        ELSE IF 2 * r > step THEN (q + 1) * step
        ELSE IF q % 2 = 0 THEN q * step ELSE (q + 1) * step

---------------------------------------------------------------------------
(* dtos.py *)

TradeSide == {"buy", "sell"}
PendingKinds == {"buy_limit", "sell_limit", "buy_stop", "sell_stop",
                 "buy_stop_limit", "sell_stop_limit"}
OrderKind == {"market"} \cup PendingKinds

\* OrderRequestDTO with its defaults; the fields a caller gives override them
OrderRequestDTO(symbol, side, volume) ==
    [symbol |-> symbol, side |-> side, volume |-> volume, kind |-> "market",
     price |-> None, stoplimit_price |-> None, sl |-> None, tp |-> None,
     deviation |-> 120, comment |-> "py-trade",
     sl_dist |-> None, tp_dist |-> None]

---------------------------------------------------------------------------
(* errors.py *)

\* raise TradingError(msg)
TradingError(msg) == [cls |-> "TradingError", msg |-> msg]
\* raise SymbolNotAvailable(...), a subclass of TradingError
SymbolNotAvailable == [cls |-> "SymbolNotAvailable", msg |-> "symbol not enabled"]
\* tick.bid on tick = None
AttributeError == [cls |-> "AttributeError", msg |-> "NoneType has no attribute bid"]
\* sqlalchemy.exc.IntegrityError raised by session.flush()
IntegrityError(msg) == [cls |-> "IntegrityError", msg |-> msg]

---------------------------------------------------------------------------
(* util.py *)

\* the MetaTrader5 SDK's retcode constants (the values of the released SDK)
mt5_retcodes ==
    [TRADE_RETCODE_DONE |-> 10009, TRADE_RETCODE_DONE_PARTIAL |-> 10010,
     TRADE_RETCODE_PLACED |-> 10008, TRADE_RETCODE_REJECT |-> 10006,
     TRADE_RETCODE_CANCEL |-> 10007, TRADE_RETCODE_INVALID |-> 10013,
     TRADE_RETCODE_INVALID_VOLUME |-> 10014, TRADE_RETCODE_INVALID_PRICE |-> 10015,
     TRADE_RETCODE_INVALID_STOPS |-> 10016, TRADE_RETCODE_MARKET_CLOSED |-> 10018,
     TRADE_RETCODE_NO_MONEY |-> 10019, TRADE_RETCODE_PRICE_CHANGED |-> 10020,
     TRADE_RETCODE_PRICE_OFF |-> 10021, TRADE_RETCODE_TRADE_DISABLED |-> 10017,
     TRADE_RETCODE_TIMEOUT |-> 10012, TRADE_RETCODE_ORDER_CHANGED |-> 10023,
     TRADE_RETCODE_TOO_MANY_REQUESTS |-> 10024,
     TRADE_RETCODE_CLIENT_DISABLES_AT |-> 10027,
     TRADE_RETCODE_LOCKED |-> 10025, TRADE_RETCODE_FROZEN |-> 10026]

\* an older SDK build that lacks the two newest constants: getattr gives None
mt5_retcodes_old ==
    [n \in DOMAIN mt5_retcodes \ {"TRADE_RETCODE_LOCKED", "TRADE_RETCODE_FROZEN"}
        |-> mt5_retcodes[n]]

\* the list `pairs` of build_retcode_map
pairs ==
    << <<"TRADE_RETCODE_DONE", "DONE">>,
       <<"TRADE_RETCODE_DONE_PARTIAL", "DONE_PARTIAL">>,
       <<"TRADE_RETCODE_PLACED", "PLACED">>,
       <<"TRADE_RETCODE_REJECT", "REJECT">>,
       <<"TRADE_RETCODE_CANCEL", "CANCEL">>,
       <<"TRADE_RETCODE_INVALID", "INVALID">>,
       <<"TRADE_RETCODE_INVALID_VOLUME", "INVALID_VOLUME">>,
       <<"TRADE_RETCODE_INVALID_PRICE", "INVALID_PRICE">>,
       <<"TRADE_RETCODE_INVALID_STOPS", "INVALID_STOPS">>,
       <<"TRADE_RETCODE_MARKET_CLOSED", "MARKET_CLOSED">>,
       <<"TRADE_RETCODE_NO_MONEY", "NO_MONEY">>,
       <<"TRADE_RETCODE_PRICE_CHANGED", "PRICE_CHANGED">>,
       <<"TRADE_RETCODE_PRICE_OFF", "OFF_QUOTES">>,
       <<"TRADE_RETCODE_TRADE_DISABLED", "TRADE_DISABLED">>,
       <<"TRADE_RETCODE_TIMEOUT", "TIMEOUT">>,
       <<"TRADE_RETCODE_ORDER_CHANGED", "ORDER_CHANGED">>,
       <<"TRADE_RETCODE_TOO_MANY_REQUESTS", "TOO_MANY_REQUESTS">>,
       <<"TRADE_RETCODE_CLIENT_DISABLES_AT", "CLIENT_AT_DISABLED">>,
       <<"TRADE_RETCODE_LOCKED", "SYMBOL_TRADE_DISABLED">>,
       <<"TRADE_RETCODE_FROZEN", "SYMBOL_FROZEN">> >>

\* m[v] = label: the dict m with key v set
DictSet(m, v, label) ==
    [k \in DOMAIN m \cup {v} |-> IF k = v THEN label ELSE m[k]]

\* the loop of build_retcode_map over pairs[1..n], on the SDK namespace sdk
RECURSIVE build_loop(_, _)
build_loop(sdk, n) ==
    IF n = 0 THEN << >>
    ELSE LET m == build_loop(sdk, n - 1)
             const == pairs[n][1]
             label == pairs[n][2]
         IN  IF const \in DOMAIN sdk THEN DictSet(m, sdk[const], label) ELSE m

build_retcode_map(sdk) == build_loop(sdk, Len(pairs))

\* f"UNKNOWN({code})"
Unknown(code) == "UNKNOWN(" \o ToString(code) \o ")"

\* RETCODES.get(code, f"UNKNOWN({code})")
label_retcode_dropped(table, code) ==
    IF code \in DOMAIN table THEN table[code] ELSE "UNKNOWN"
label_retcode(table, code) ==
    IF code \in DOMAIN table THEN table[code] ELSE Unknown(code)

---------------------------------------------------------------------------
(* mt5_adapter.py: MT5Gateway.  Every operation is an operator of the       *)
(* RETCODES table, its arguments and env, the terminal's answers during the *)
(* call:                                                                    *)
(*   env.si          symbol_info(symbol): None or Some([digits, filling_mode]) *)
(*   env.tick        symbol_info_tick(symbol): None or Some([bid, ask])     *)
(*   env.positions   positions_get(): the set of open positions             *)
(*   env.orders      orders_get(): the set of pending orders                *)
(*   env.ans         order_send(request): None or Some(response)            *)
(*   env.last_error  last_error()                                           *)
(* Its value is [exc, sent, res]: the exception raised (or None), the       *)
(* requests handed to order_send, and the OrderResultDTO returned (or None).*)

ORDER_FILLING_FOK == 0
ORDER_FILLING_IOC == 1
ORDER_FILLING_RETURN == 2

Raise(e) == [exc |-> Some(e), sent |-> << >>, res |-> None]
Return(request, r) == [exc |-> None, sent |-> <<request>>, res |-> Some(r)]

\* MT5Gateway._fmt_res
fmt_res_unlabelled(table, res, last_error) ==
    IF res = None
    THEN [retcode |-> -1, label |-> label_retcode(table, -1), comment |-> "",
          order |-> None, deal |-> None, price |-> None, request_id |-> None,
          last_error |-> last_error, raw |-> None]
    ELSE [retcode |-> res[1].retcode,
          label |-> label_retcode(table, res[1].retcode),
          comment |-> res[1].comment,
          order |-> Some(res[1].order),
          deal |-> Some(res[1].deal),
          price |-> Some(res[1].price),
          request_id |-> Some(res[1].request_id),
          last_error |-> last_error,
          raw |-> res]
fmt_res(table, res, last_error) ==
    IF res = None
    THEN [retcode |-> -1, label |-> "NO_RESULT", comment |-> "", order |-> None,
          deal |-> None, price |-> None, request_id |-> None,
          last_error |-> last_error, raw |-> None]
    ELSE [retcode |-> res[1].retcode,
          label |-> label_retcode(table, res[1].retcode),
          comment |-> res[1].comment,
          order |-> Some(res[1].order),
          deal |-> Some(res[1].deal),
          price |-> Some(res[1].price),
          request_id |-> Some(res[1].request_id),
          last_error |-> last_error,
          raw |-> res]

\* the price a market order executes at: ask for a buy, bid for a sell
market_price_ask(req, t) == t.ask
market_price(req, t) == IF req.side = "buy" THEN t.ask ELSE t.bid

\* sl, tp of market_order, the sl_dist/tp_dist convenience applied
market_sl(req, price, digits) ==
    IF req.sl_dist # None
    THEN Some(round(IF req.side = "buy" THEN price - req.sl_dist[1]
                    ELSE price + req.sl_dist[1], digits))
    ELSE req.sl
market_tp(req, price, digits) ==
    IF req.tp_dist # None
    THEN Some(round(IF req.side = "buy" THEN price + req.tp_dist[1]
                    ELSE price - req.tp_dist[1], digits))
    ELSE req.tp

\* fill of market_order
market_fill(si) ==
    IF si.filling_mode \in {ORDER_FILLING_FOK, ORDER_FILLING_IOC, ORDER_FILLING_RETURN}
    THEN si.filling_mode ELSE ORDER_FILLING_IOC

\* `login and password and server` of initialize
HasCredentials(args) == args.login /\ args.password /\ args.server

\* MT5Gateway.initialize.  flag is self._initialized; args tells which of
\* login, password, server are given; env is what the platform and the
\* terminal answer: is64 (platform.architecture), attach (mt5.initialize()),
\* exe_ok (exe and exe.exists()), path_init (mt5.initialize(path=...)),
\* login_ok (mt5.login(...)).  Its value is [exc, flag, attached]; attached
\* tells whether one of the mt5.initialize calls succeeded.
initialize(flag, args, env) ==
    IF ~env.is64
    THEN [exc |-> Some(TradingError("Use 64-bit Python with MT5.")),
          flag |-> flag, attached |-> FALSE]
    ELSE IF ~env.attach /\ ~env.exe_ok
    THEN [exc |-> Some(TradingError("MT5 initialize failed and no valid path provided")),
          flag |-> flag, attached |-> FALSE]
    ELSE IF ~env.attach /\ ~env.path_init
    THEN [exc |-> Some(TradingError("MT5 initialize(path=...) failed")),
          flag |-> flag, attached |-> FALSE]
    ELSE IF HasCredentials(args) /\ ~env.login_ok
    THEN [exc |-> Some(TradingError("MT5 login failed")),
          flag |-> flag, attached |-> TRUE]
    ELSE [exc |-> None, flag |-> TRUE, attached |-> TRUE]

\* shutdown invoking mt5.shutdown() whatever the flag is
shutdown_unconditional(flag) == [flag |-> FALSE, invoked |-> TRUE]
\* MT5Gateway.shutdown; invoked tells whether mt5.shutdown() was called
shutdown(flag) ==
    IF flag THEN [flag |-> FALSE, invoked |-> TRUE]
    ELSE [flag |-> flag, invoked |-> FALSE]

\* MT5Gateway.market_order (ensure_symbol inlined)
market_order(table, req, env) ==
    IF env.si = None THEN Raise(SymbolNotAvailable)
    ELSE IF env.tick = None THEN Raise(TradingError("No tick"))
    ELSE LET si == env.si[1]
             price == market_price(req, env.tick[1])
             sl == market_sl(req, price, si.digits)
             tp == market_tp(req, price, si.digits)
             request ==
                 [action |-> "TRADE_ACTION_DEAL", symbol |-> req.symbol,
                  type |-> IF req.side = "buy" THEN "ORDER_TYPE_BUY"
                           ELSE "ORDER_TYPE_SELL",
                  volume |-> req.volume, price |-> price,
                  sl |-> OrElse(sl, 0), tp |-> OrElse(tp, 0),
                  deviation |-> req.deviation, type_time |-> "ORDER_TIME_GTC",
                  type_filling |-> market_fill(si), comment |-> req.comment]
         IN  Return(request, fmt_res(table, env.ans, env.last_error))

\* kind_map of pending_order
kind_map ==
    [buy_limit |-> "ORDER_TYPE_BUY_LIMIT", sell_limit |-> "ORDER_TYPE_SELL_LIMIT",
     buy_stop |-> "ORDER_TYPE_BUY_STOP", sell_stop |-> "ORDER_TYPE_SELL_STOP",
     buy_stop_limit |-> "ORDER_TYPE_BUY_STOP_LIMIT",
     sell_stop_limit |-> "ORDER_TYPE_SELL_STOP_LIMIT"]

\* MT5Gateway.pending_order (ensure_symbol inlined)
pending_order(table, req, env) ==
    IF env.si = None THEN Raise(SymbolNotAvailable)
    ELSE IF req.kind = "market"
    THEN Raise(TradingError("Use market_order() for OrderKind.MARKET"))
    ELSE IF req.price = None
    THEN Raise(TradingError("Pending order requires 'price'"))
    ELSE LET request ==
                 [action |-> "TRADE_ACTION_PENDING", symbol |-> req.symbol,
                  type |-> kind_map[req.kind],
                  volume |-> req.volume, price |-> req.price[1],
                  stoplimit |-> OrElse(req.stoplimit_price, 0),
                  sl |-> OrElse(req.sl, 0), tp |-> OrElse(req.tp, 0),
                  deviation |-> req.deviation, type_time |-> "ORDER_TIME_GTC",
                  type_filling |-> ORDER_FILLING_RETURN, expiration |-> 0,
                  comment |-> req.comment]
         IN  Return(request, fmt_res(table, env.ans, env.last_error))

\* next((p for p in listing if p.ticket == ticket), None)
Find(listing, ticket) ==
    IF \E p \in listing : p.ticket = ticket
    THEN Some(CHOOSE p \in listing : p.ticket = ticket)
    ELSE None

\* modify_position_sltp sending the request without looking the position up
modify_position_sltp_unchecked(table, position_ticket, sl, tp, env) ==
    LET pos == Find(env.positions, position_ticket)
    IN  Return([action |-> "TRADE_ACTION_SLTP", position |-> position_ticket,
                symbol |-> IF pos = None THEN "" ELSE pos[1].symbol,
                sl |-> sl, tp |-> tp, comment |-> "py-modify"],
               fmt_res(table, env.ans, env.last_error))
\* MT5Gateway.modify_position_sltp
modify_position_sltp(table, position_ticket, sl, tp, env) ==
    LET pos == Find(env.positions, position_ticket)
    IN  IF pos = None THEN Raise(TradingError("Position not found"))
        ELSE Return([action |-> "TRADE_ACTION_SLTP", position |-> position_ticket,
                     symbol |-> pos[1].symbol, sl |-> sl, tp |-> tp,
                     comment |-> "py-modify"],
                    fmt_res(table, env.ans, env.last_error))

\* MT5Gateway.close_position
close_position(table, position_ticket, deviation, env) ==
    LET pos == Find(env.positions, position_ticket)
    IN  IF pos = None THEN Raise(TradingError("Position not found"))
        ELSE IF env.tick = None THEN Raise(AttributeError)
        ELSE LET is_buy == pos[1].type = "buy"
                 price == IF is_buy THEN env.tick[1].bid ELSE env.tick[1].ask
             IN  Return([action |-> "TRADE_ACTION_DEAL", symbol |-> pos[1].symbol,
                         volume |-> pos[1].volume,
                         type |-> IF is_buy THEN "ORDER_TYPE_SELL"
                                  ELSE "ORDER_TYPE_BUY",
                         position |-> position_ticket, price |-> price,
                         deviation |-> deviation, type_time |-> "ORDER_TIME_GTC",
                         type_filling |-> ORDER_FILLING_IOC,
                         comment |-> "py-close"],
                        fmt_res(table, env.ans, env.last_error))

\* MT5Gateway.cancel_order
cancel_order(table, order_ticket, env) ==
    LET o == Find(env.orders, order_ticket)
    IN  IF o = None THEN Raise(TradingError("Order not found"))
        ELSE Return([action |-> "TRADE_ACTION_REMOVE", order |-> order_ticket,
                     symbol |-> o[1].symbol, comment |-> "py-cancel"],
                    fmt_res(table, env.ans, env.last_error))

\* MT5Gateway.positions: positions_get(symbol=symbol) if symbol else positions_get()
gw_positions(symbol, listing) ==
    IF symbol = "" THEN listing ELSE {p \in listing : p.symbol = symbol}

\* PositionDTO built from a position p of the terminal
PositionDTO(p) ==
    [ticket |-> p.ticket, symbol |-> p.symbol,
     side |-> IF p.type = "buy" THEN "buy" ELSE "sell",
     volume |-> p.volume, price_open |-> p.price_open, sl |-> p.sl,
     tp |-> p.tp, profit |-> p.profit]

\* MT5Gateway.positions on the answer ps of positions_get (None, or the
\* listing): for p in ps or []: out.append(PositionDTO(...))
gateway_positions(ps) ==
    LET l == IF ps = None THEN << >> ELSE ps[1]
    IN  [i \in 1..Len(l) |-> PositionDTO(l[i])]

---------------------------------------------------------------------------
(* db_models.py, config/db.py, app/services/base.py: the recorder. *)

\* OrderRow: broker_order is unique (NULLs are distinct); symbol, side, kind,
\* volume are NOT NULL
OrderRowViolation(table, kw) ==
    \/ kw.broker_order # None
       /\ \E i \in 1..Len(table) : table[i].broker_order = kw.broker_order
    \/ kw.symbol = None \/ kw.side = None \/ kw.kind = None \/ kw.volume = None

\* DealRow: deal_ticket is unique; deal_ticket, symbol, side, volume, price and
\* time are NOT NULL, and time has no default
DealRowViolation(table, kw) ==
    \/ \E i \in 1..Len(table) : table[i].deal_ticket = kw.deal_ticket
    \/ kw.deal_ticket = None \/ kw.symbol = None \/ kw.side = None
    \/ kw.volume = None \/ kw.price = None \/ kw.time = None

\* session_scope whose except clause rolls back and does not re-raise
session_scope_swallowing(table, kw, violation) ==
    IF violation
    THEN [table |-> table, exc |-> None,
          log |-> <<"begin", "flush", "rollback", "close">>]
    ELSE [table |-> Append(table, [id |-> Len(table) + 1] @@ kw),
          exc |-> None, log |-> <<"begin", "flush", "commit", "close">>]
\* session_scope around add + flush: session = SessionLocal(); the body
\* flushes; then commit, or on an exception rollback and re-raise; finally
\* close.  log lists what was done to the session.
session_scope(table, kw, violation) ==
    IF violation
    THEN [table |-> table, exc |-> Some(IntegrityError("constraint failed")),
          log |-> <<"begin", "flush", "rollback", "close">>]
    ELSE [table |-> Append(table, [id |-> Len(table) + 1] @@ kw),
          exc |-> None, log |-> <<"begin", "flush", "commit", "close">>]

\* BaseService(OrderRow).create(**kwargs)
orders_repo_create(table, kw) ==
    session_scope(table, kw, OrderRowViolation(table, kw))

\* BaseService(DealRow).create(**kwargs)
deals_repo_create(table, kw) ==
    session_scope(table, kw, DealRowViolation(table, kw))

\* PositionSnapRow: symbol, ticket, side, volume and price_open are NOT NULL
PositionSnapRowViolation(table, kw) ==
    \/ kw.symbol = None \/ kw.ticket = None \/ kw.side = None
    \/ kw.volume = None \/ kw.price_open = None

\* BaseService(PositionSnapRow).create(**kwargs)
positions_repo_create(table, kw) ==
    session_scope(table, kw, PositionSnapRowViolation(table, kw))

---------------------------------------------------------------------------
(* app/services/trading_service.py: TradingService.  db is [orders, deals]; *)
(* a recorder's value is [orders, deals, exc, log], log listing what its    *)
(* sessions did, in order.                                                  *)

\* TradingService._record_order
record_order(req, res, db) ==
    LET order_data ==
            [broker_order |-> res.order, broker_deal |-> res.deal,
             symbol |-> Some(req.symbol), side |-> Some(req.side),
             kind |-> Some(req.kind), volume |-> Some(req.volume),
             requested_price |-> req.price, filled_price |-> res.price,
             sl |-> req.sl, tp |-> req.tp,
             retcode |-> Some(res.retcode), retcode_label |-> Some(res.label),
             ret_comment |-> Some(res.comment), request_id |-> res.request_id]
        o == orders_repo_create(db.orders, order_data)
    IN  IF o.exc # None
        THEN [orders |-> o.table, deals |-> db.deals, exc |-> o.exc,
              log |-> o.log]
        ELSE IF Truthy(res.deal)
        THEN LET deal_data ==
                     [deal_ticket |-> res.deal, order_ticket |-> res.order,
                      symbol |-> Some(req.symbol), side |-> Some(req.side),
                      volume |-> Some(req.volume),
                      price |-> Some(OrElse(res.price, 0)),
                      profit |-> None, commission |-> None, swap |-> None,
                      time |-> None]
                 d == deals_repo_create(db.deals, deal_data)
             IN  [orders |-> o.table, deals |-> d.table, exc |-> d.exc,
                  log |-> o.log \o d.log]
        ELSE [orders |-> o.table, deals |-> db.deals, exc |-> None,
              log |-> o.log]

\* TradingService._record_order_change
record_order_change(ticket, res, db) ==
    LET order_data ==
            [broker_order |-> Some(OrElse(res.order, ticket)),
             broker_deal |-> res.deal,
             symbol |-> Some(""), side |-> Some(""),
             kind |-> Some("MODIFY"), volume |-> Some(0),
             requested_price |-> None, filled_price |-> res.price,
             sl |-> None, tp |-> None,
             retcode |-> Some(res.retcode), retcode_label |-> Some(res.label),
             ret_comment |-> Some(res.comment), request_id |-> res.request_id]
        o == orders_repo_create(db.orders, order_data)
    IN  [orders |-> o.table, deals |-> db.deals, exc |-> o.exc, log |-> o.log]

\* TradingService._record_positions from the i-th position on; its value is
\* [table, exc, log]
RECURSIVE record_positions_from(_, _, _)
record_positions_from(ps, i, table) ==
    IF i > Len(ps) THEN [table |-> table, exc |-> None, log |-> << >>]
    ELSE LET p == ps[i]
             snap_data ==
                 [symbol |-> Some(p.symbol), ticket |-> Some(p.ticket),
                  side |-> Some(p.side), volume |-> Some(p.volume),
                  price_open |-> Some(p.price_open), sl |-> Some(p.sl),
                  tp |-> Some(p.tp), profit |-> Some(p.profit)]
             c == positions_repo_create(table, snap_data)
         IN  IF c.exc # None THEN c
             ELSE LET rest == record_positions_from(ps, i + 1, c.table)
                  IN  [rest EXCEPT !.log = c.log \o @]

\* _record_positions stopping after the first position
record_positions_first(ps, table) ==
    record_positions_from(IF ps = << >> THEN ps ELSE <<ps[1]>>, 1, table)
\* TradingService._record_positions
record_positions(ps, table) == record_positions_from(ps, 1, table)

\* TradingService.positions on the answer got of positions_get; its value is
\* [exc, ret, snaps, tx]
service_positions(got, table) ==
    LET ps == gateway_positions(got)
        rec == record_positions(ps, table)
    IN  [exc |-> rec.exc, ret |-> IF rec.exc = None THEN Some(ps) ELSE None,
         snaps |-> rec.table, tx |-> rec.log]

\* the outcome of a use-case: the exception that leaves it (or None), the value
\* it returns (or None), the results obtained from the Gateway, the requests
\* sent to the terminal, the tables afterwards and what the recorder's
\* sessions did (nothing when the recorder was not reached)
Outcome(exc, ret, got, sent, db) ==
    [exc |-> exc, ret |-> ret, got |-> got, sent |-> sent,
     orders |-> db.orders, deals |-> db.deals,
     tx |-> IF "log" \in DOMAIN db THEN db.log ELSE << >>]

\* res = gw.<operation>(...); self._record_...(…, res); return res
Recorded(g, rec) ==
    Outcome(rec.exc, IF rec.exc = None THEN g.res ELSE None,
            <<g.res[1]>>, g.sent, rec)

\* buy calling market_order again when the first result is not DONE
buy_retry(table, symbol, volume, sl_dist, tp_dist, env, db) ==
    LET req == [OrderRequestDTO(symbol, "buy", volume) EXCEPT
                    !.sl_dist = sl_dist, !.tp_dist = tp_dist,
                    !.comment = "py-buy"]
        g == market_order(table, req, env)
    IN  IF g.exc # None THEN Outcome(g.exc, None, << >>, g.sent, db)
        ELSE IF g.res[1].retcode # mt5_retcodes.TRADE_RETCODE_DONE
        THEN Recorded([g EXCEPT !.sent = @ \o @],
                      record_order(req, g.res[1], db))
        ELSE Recorded(g, record_order(req, g.res[1], db))
\* TradingService.buy
buy(table, symbol, volume, sl_dist, tp_dist, env, db) ==
    LET req == [OrderRequestDTO(symbol, "buy", volume) EXCEPT
                    !.sl_dist = sl_dist, !.tp_dist = tp_dist,
                    !.comment = "py-buy"]
        g == market_order(table, req, env)
    IN  IF g.exc # None THEN Outcome(g.exc, None, << >>, g.sent, db)
        ELSE Recorded(g, record_order(req, g.res[1], db))

\* TradingService.sell
sell(table, symbol, volume, sl_dist, tp_dist, env, db) ==
    LET req == [OrderRequestDTO(symbol, "sell", volume) EXCEPT
                    !.sl_dist = sl_dist, !.tp_dist = tp_dist,
                    !.comment = "py-sell"]
        g == market_order(table, req, env)
    IN  IF g.exc # None THEN Outcome(g.exc, None, << >>, g.sent, db)
        ELSE Recorded(g, record_order(req, g.res[1], db))

\* TradingService.place_pending
place_pending(table, symbol, side, kind, price, volume, env, db) ==
    LET req == [OrderRequestDTO(symbol, side, volume) EXCEPT
                    !.kind = kind, !.price = price, !.sl = Some(0),
                    !.tp = Some(0), !.comment = "py-pending"]
        g == pending_order(table, req, env)
    IN  IF g.exc # None THEN Outcome(g.exc, None, << >>, g.sent, db)
        ELSE Recorded(g, record_order(req, g.res[1], db))

\* TradingService.modify_sltp
modify_sltp(table, position_ticket, sl, tp, env, db) ==
    LET g == modify_position_sltp(table, position_ticket, sl, tp, env)
    IN  IF g.exc # None THEN Outcome(g.exc, None, << >>, g.sent, db)
        ELSE Recorded(g, record_order_change(position_ticket, g.res[1], db))

\* close swallowing the Gateway's exception and returning None
close_swallowing(table, position_ticket, deviation, env, db) ==
    LET g == close_position(table, position_ticket, deviation, env)
    IN  IF g.exc # None THEN Outcome(None, None, << >>, g.sent, db)
        ELSE Recorded(g, record_order_change(position_ticket, g.res[1], db))
\* TradingService.close
close(table, position_ticket, deviation, env, db) ==
    LET g == close_position(table, position_ticket, deviation, env)
    IN  IF g.exc # None THEN Outcome(g.exc, None, << >>, g.sent, db)
        ELSE Recorded(g, record_order_change(position_ticket, g.res[1], db))

---------------------------------------------------------------------------
(* The terminal.  term is [positions, pendings, nextTicket].  What it does  *)
(* with one request is a shape: None (order_send returns None) or           *)
(* Some([retcode, order, deal, price]), order and deal telling whether it   *)
(* assigns an order ticket and a deal ticket; the tickets it assigns are    *)
(* fresh.                                                                   *)

\* the answer of order_send for a shape, with the tickets the terminal assigns
MkAnswer(shape, nt) ==
    IF shape = None THEN None
    ELSE Some([retcode |-> shape[1].retcode, comment |-> "",
               order |-> IF shape[1].order THEN nt ELSE 0,
               deal |-> IF shape[1].deal THEN nt + 1 ELSE 0,
               price |-> shape[1].price, request_id |-> nt])

\* the terminal after order_send(request) answered by shape: an executed
\* deal opens a position (its ticket is the order's) or closes the position
\* it names; an executed modification sets the position's stops; a placed
\* pending order is listed; a removed one is not
order_send(term, request, shape) ==
    IF shape = None THEN term
    ELSE LET a == MkAnswer(shape, term.nextTicket)[1]
             nt == IF shape[1].order \/ shape[1].deal
                   THEN term.nextTicket + 2 ELSE term.nextTicket
             done == a.retcode = mt5_retcodes.TRADE_RETCODE_DONE
             placed == a.retcode = mt5_retcodes.TRADE_RETCODE_PLACED
         IN  CASE request.action = "TRADE_ACTION_DEAL" /\ done /\ a.deal # 0
                  /\ "position" \in DOMAIN request ->
                    [term EXCEPT !.nextTicket = nt,
                        !.positions = {p \in @ : p.ticket # request.position}]
               [] request.action = "TRADE_ACTION_DEAL" /\ done /\ a.deal # 0
                  /\ "position" \notin DOMAIN request /\ a.order # 0 ->
                    [term EXCEPT !.nextTicket = nt,
                        !.positions = @ \cup
                            {[ticket |-> a.order, symbol |-> request.symbol,
                              type |-> IF request.type = "ORDER_TYPE_BUY"
                                       THEN "buy" ELSE "sell",
                              volume |-> request.volume,
                              price_open |-> a.price, sl |-> request.sl,
                              tp |-> request.tp, profit |-> 0]}]
               [] request.action = "TRADE_ACTION_PENDING" /\ placed
                  /\ a.order # 0 ->
                    [term EXCEPT !.nextTicket = nt,
                        !.pendings = @ \cup
                            {[ticket |-> a.order, symbol |-> request.symbol]}]
               [] request.action = "TRADE_ACTION_SLTP" /\ done ->
                    [term EXCEPT !.nextTicket = nt,
                        !.positions =
                            {IF p.ticket = request.position
                             THEN [p EXCEPT !.sl = request.sl, !.tp = request.tp]
                             ELSE p : p \in @}]
               [] request.action = "TRADE_ACTION_REMOVE" /\ done ->
                    [term EXCEPT !.nextTicket = nt,
                        !.pendings = {o \in @ : o.ticket # request.order}]
               [] OTHER -> [term EXCEPT !.nextTicket = nt]

\* the terminal after the requests of one Gateway call (none or one)
Sent(term, sent, shape) ==
    IF sent = << >> THEN term ELSE order_send(term, sent[1], shape)

\* what the terminal answers during one Gateway call
Env(term, si, tick, shape, last_error) ==
    [si |-> si, tick |-> tick, positions |-> term.positions,
     orders |-> term.pendings, ans |-> MkAnswer(shape, term.nextTicket),
     last_error |-> last_error, shape |-> shape]

\* the tickets of a listing in the order the terminal lists them (ascending)
RECURSIVE Listing(_)
Listing(ps) ==
    IF ps = {} THEN << >>
    ELSE LET p == CHOOSE x \in ps : \A y \in ps : x.ticket <= y.ticket
         IN  <<p>> \o Listing(ps \ {p})

\* mt5.positions_get(symbol=symbol): the listing, or None when the terminal
\* does not answer
positions_get(symbol, term, answers) ==
    IF answers THEN Some(Listing(gw_positions(symbol, term.positions)))
    ELSE None

---------------------------------------------------------------------------
(* TradingService.close_all.  turns[ticket] is what the terminal does while *)
(* that ticket is closed: [gone, tick, shape, last_error]; gone tells that   *)
(* the position was closed by the broker after the listing was taken.        *)

\* the loop body, from the i-th listed position on; st is
\* [exc, out, got, sent, tried, orders, deals, term, log]; tried lists the
\* tickets close_position was called on
RECURSIVE close_all_loop(_, _, _, _, _, _)
close_all_loop(table, listing, i, deviation, turns, st) ==
    IF i > Len(listing) THEN st
    ELSE LET t == listing[i].ticket
             turn == turns[t]
             term == IF turn.gone
                     THEN [st.term EXCEPT
                               !.positions = {p \in @ : p.ticket # t}]
                     ELSE st.term
             env == Env(term, None, turn.tick, turn.shape, turn.last_error)
             g == close_position(table, t, deviation, env)
         IN  IF g.exc # None
             THEN [st EXCEPT !.exc = g.exc, !.term = term,
                       !.tried = Append(@, t)]
             ELSE LET rec == record_order_change(t, g.res[1], st)
                      term2 == Sent(term, g.sent, turn.shape)
                  IN  IF rec.exc # None
                      THEN [st EXCEPT !.exc = rec.exc, !.term = term2,
                                !.tried = Append(@, t),
                                !.got = Append(@, g.res[1]),
                                !.sent = @ \o g.sent,
                                !.log = @ \o rec.log]
                      ELSE close_all_loop(table, listing, i + 1, deviation, turns,
                               [st EXCEPT !.term = term2,
                                    !.tried = Append(@, t),
                                    !.out = Append(@, g.res[1]),
                                    !.got = Append(@, g.res[1]),
                                    !.sent = @ \o g.sent,
                                    !.orders = rec.orders,
                                    !.log = @ \o rec.log])

\* TradingService.close_all; its value is an Outcome, with the terminal
\* afterwards and the listing it worked on
close_all(table, symbol, deviation, turns, db, term) ==
    LET listing == Listing(gw_positions(symbol, term.positions))
        st == close_all_loop(table, listing, 1, deviation, turns,
                  [exc |-> None, out |-> << >>, got |-> << >>, sent |-> << >>,
                   tried |-> << >>, orders |-> db.orders, deals |-> db.deals,
                   term |-> term, log |-> << >>])
    IN  [exc |-> st.exc, ret |-> IF st.exc = None THEN Some(st.out) ELSE None,
         got |-> st.got, sent |-> st.sent, orders |-> st.orders,
         deals |-> st.deals, term |-> st.term, listing |-> listing,
         tried |-> st.tried, tx |-> st.log]

---------------------------------------------------------------------------
(* Inputs. *)

Symbols == {"XAUUSD"}
Volumes == {1}

\* the positions and the pending order the terminal may hold at the start
PosUniverse ==
    {[ticket |-> 1, symbol |-> "XAUUSD", type |-> "buy", volume |-> 1,
      price_open |-> 239500, sl |-> 0, tp |-> 0, profit |-> 490],
     [ticket |-> 2, symbol |-> "XAUUSD", type |-> "sell", volume |-> 1,
      price_open |-> 240500, sl |-> 0, tp |-> 0, profit |-> 500]}
PendUniverse == {[ticket |-> 3, symbol |-> "XAUUSD"]}
\* a ticket the terminal never assigned
StaleTickets == {999}
FirstFreshTicket ==
    1 + Cardinality(PosUniverse) + Cardinality(PendUniverse)

\* shapes of the terminal's answer
Executed == Some([retcode |-> 10009, order |-> TRUE, deal |-> TRUE, price |-> 240000])
Placed == Some([retcode |-> 10008, order |-> TRUE, deal |-> FALSE, price |-> 0])
Rejected == Some([retcode |-> 10006, order |-> FALSE, deal |-> FALSE, price |-> 0])
InvalidFill == Some([retcode |-> 10030, order |-> FALSE, deal |-> FALSE, price |-> 0])
Frozen == Some([retcode |-> 10026, order |-> FALSE, deal |-> FALSE, price |-> 0])

NoError == [code |-> 1, msg |-> "Success"]
NoIPC == [code |-> -10004, msg |-> "No IPC connection"]

\* the Service's calls
SvcShapes == {None, Executed, Placed, Rejected}
SvcSi == Some([digits |-> 2, filling_mode |-> 1])
SvcTick == Some([bid |-> 239990, ask |-> 240000])
SvcDists == {<<None, None>>, <<Some(200), Some(200)>>}
SvcMarketEnvs ==
    {[si |-> None, tick |-> SvcTick, shape |-> None],
     [si |-> SvcSi, tick |-> None, shape |-> None]}
    \cup {[si |-> SvcSi, tick |-> SvcTick, shape |-> sh] : sh \in SvcShapes}
SvcPendingArgs ==
    {[kind |-> "market", price |-> Some(239000)],
     [kind |-> "buy_limit", price |-> None],
     [kind |-> "buy_limit", price |-> Some(239000)]}
SvcTurns ==
    {[gone |-> TRUE, tick |-> SvcTick, shape |-> None, last_error |-> NoError],
     [gone |-> FALSE, tick |-> None, shape |-> None, last_error |-> NoError]}
    \cup {[gone |-> FALSE, tick |-> SvcTick, shape |-> sh, last_error |-> NoError]
            : sh \in SvcShapes}

\* the Gateway's calls
GwShapes ==
    {<<None, NoError>>, <<None, NoIPC>>, <<Executed, NoError>>,
     <<Placed, NoError>>, <<Rejected, NoIPC>>, <<InvalidFill, NoError>>,
     <<Frozen, NoError>>}
GwSi ==
    {None} \cup {Some([digits |-> d, filling_mode |-> IF d = 1 THEN 3 ELSE 1])
                    : d \in 0..MaxDigits}
GwTicks ==
    {None, Some([bid |-> 239990, ask |-> 240000]),
     Some([bid |-> 104, ask |-> 117]), Some([bid |-> 126, ask |-> 126])}
GwDists ==
    {<<None, None>>, <<Some(0), Some(0)>>, <<Some(7), None>>,
     <<None, Some(7)>>, <<Some(200), Some(200)>>, <<Some(7), Some(200)>>}
GwAbs == {<<None, None>>, <<Some(100), Some(300)>>}
GwKinds == {"market", "buy_limit", "sell_stop_limit"}
GwPrices == {None, Some(239000)}

---------------------------------------------------------------------------
(* The state machine. *)

Term == [positions |-> positions, pendings |-> pendings, nextTicket |-> nextTicket]
\* the terminal session before any initialize
NotAttached == [attached |-> FALSE, inits |-> 0, shutdowns |-> 0]
Db == [orders |-> orders, deals |-> deals]

NoCall ==
    [op |-> "none", args |-> << >>, env |-> << >>, exc |-> None, ret |-> None,
     got |-> << >>, sent |-> << >>, tx |-> << >>]

\* the state after import and construction, the terminal holding any of its
\* positions
Init ==
    /\ RETCODES = build_retcode_map(mt5_retcodes)
    /\ initialized = FALSE
    /\ mt5 = NotAttached
    /\ orders = << >> /\ deals = << >> /\ snaps = << >>
    /\ positions \in SUBSET PosUniverse
    /\ pendings = {}
    /\ nextTicket = FirstFreshTicket
    /\ last = NoCall
    /\ nCalls = 0 /\ nGot = 0

\* the state after a call: o is its Outcome, term2 the terminal afterwards
Finish(op, args, env, o, term2) ==
    /\ last' = [op |-> op, args |-> args, env |-> env, exc |-> o.exc,
                ret |-> o.ret, got |-> o.got, sent |-> o.sent, tx |-> o.tx]
    /\ orders' = o.orders /\ deals' = o.deals
    /\ positions' = term2.positions /\ pendings' = term2.pendings
    /\ nextTicket' = term2.nextTicket
    /\ nCalls' = nCalls + 1 /\ nGot' = nGot + Len(o.got)
    /\ UNCHANGED <<RETCODES, initialized, snaps, mt5>>

Buy ==
    /\ nCalls < MaxCalls
    /\ \E symbol \in Symbols, volume \in Volumes, d \in SvcDists, e \in SvcMarketEnvs :
        LET env == Env(Term, e.si, e.tick, e.shape, NoError)
            o == buy(RETCODES, symbol, volume, d[1], d[2], env, Db)
        IN  Finish("buy",
                   [symbol |-> symbol, volume |-> volume, sl_dist |-> d[1],
                    tp_dist |-> d[2]],
                   env, o, Sent(Term, o.sent, e.shape))

Sell ==
    /\ nCalls < MaxCalls
    /\ \E symbol \in Symbols, volume \in Volumes, d \in SvcDists, e \in SvcMarketEnvs :
        LET env == Env(Term, e.si, e.tick, e.shape, NoError)
            o == sell(RETCODES, symbol, volume, d[1], d[2], env, Db)
        IN  Finish("sell",
                   [symbol |-> symbol, volume |-> volume, sl_dist |-> d[1],
                    tp_dist |-> d[2]],
                   env, o, Sent(Term, o.sent, e.shape))

PlacePending ==
    /\ nCalls < MaxCalls
    /\ \E symbol \in Symbols, volume \in Volumes, a \in SvcPendingArgs,
          si \in {None, SvcSi}, sh \in SvcShapes :
        \* the answer is an input only of a call that sends a request
        /\ (si = None \/ a.kind = "market" \/ a.price = None) => sh = None
        /\ LET env == Env(Term, si, None, sh, NoError)
               o == place_pending(RETCODES, symbol, "buy", a.kind, a.price,
                                  volume, env, Db)
           IN  Finish("place_pending",
                      [symbol |-> symbol, side |-> "buy", kind |-> a.kind,
                       price |-> a.price, volume |-> volume],
                      env, o, Sent(Term, o.sent, sh))

\* the tickets a caller names: those of the open positions, and a stale one
TicketArgs == {p.ticket : p \in positions} \cup StaleTickets

ModifySltp ==
    /\ nCalls < MaxCalls
    /\ \E ticket \in TicketArgs, sh \in SvcShapes :
        /\ ticket \in StaleTickets => sh = None
        /\ LET env == Env(Term, None, None, sh, NoError)
               o == modify_sltp(RETCODES, ticket, 239800, 240200, env, Db)
           IN  Finish("modify_sltp",
                      [ticket |-> ticket, sl |-> 239800, tp |-> 240200],
                      env, o, Sent(Term, o.sent, sh))

Close ==
    /\ nCalls < MaxCalls
    /\ \E ticket \in TicketArgs, tick \in {None, SvcTick}, sh \in SvcShapes :
        /\ (ticket \in StaleTickets \/ tick = None) => sh = None
        /\ ticket \in StaleTickets => tick = None
        /\ LET env == Env(Term, None, tick, sh, NoError)
               o == close(RETCODES, ticket, 120, env, Db)
           IN  Finish("close", [ticket |-> ticket, deviation |-> 120],
                      env, o, Sent(Term, o.sent, sh))

CloseAll ==
    /\ nCalls < MaxCalls
    /\ \E symbol \in Symbols :
       \E turns \in [{p.ticket : p \in gw_positions(symbol, positions)} -> SvcTurns] :
        LET o == close_all(RETCODES, symbol, 120, turns, Db, Term)
        IN  Finish("close_all",
                   [symbol |-> symbol, deviation |-> 120, listing |-> o.listing,
                    tried |-> o.tried],
                   turns, o, o.term)

\* MT5Gateway.cancel_order called by the application on the Service's
\* gateway (TradingService has no cancel use-case)
CancelOrder ==
    /\ nCalls < MaxCalls
    /\ \E ticket \in {o.ticket : o \in pendings} \cup StaleTickets,
          sh \in SvcShapes :
        /\ ticket \in StaleTickets => sh = None
        /\ LET env == Env(Term, None, None, sh, NoError)
               g == cancel_order(RETCODES, ticket, env)
               term2 == Sent(Term, g.sent, sh)
           IN  /\ last' = [op |-> "cancel_order", args |-> [ticket |-> ticket],
                           env |-> env, exc |-> g.exc, ret |-> g.res,
                           got |-> << >>, sent |-> g.sent, tx |-> << >>]
               /\ positions' = term2.positions /\ pendings' = term2.pendings
               /\ nextTicket' = term2.nextTicket
               /\ nCalls' = nCalls + 1
               /\ UNCHANGED <<RETCODES, initialized, orders, deals, snaps, nGot, mt5>>

\* TradingService.positions(symbol); "" stands for no symbol filter
Positions ==
    /\ nCalls < MaxCalls
    /\ \E symbol \in Symbols \cup {""}, answers \in BOOLEAN :
        LET got == positions_get(symbol, Term, answers)
            o == service_positions(got, snaps)
        IN  /\ last' = [op |-> "positions", args |-> [symbol |-> symbol],
                        env |-> [listing |-> got], exc |-> o.exc,
                        ret |-> o.ret, got |-> << >>, sent |-> << >>,
                        tx |-> o.tx]
            /\ snaps' = o.snaps
            /\ nCalls' = nCalls + 1
            /\ UNCHANGED <<RETCODES, initialized, orders, deals, positions,
                           pendings, nextTicket, nGot, mt5>>

Next ==
    \/ Buy \/ Sell \/ PlacePending \/ ModifySltp \/ Close \/ CloseAll
    \/ CancelOrder \/ Positions

Spec == Init /\ [][Next]_vars

---------------------------------------------------------------------------
(* The Gateway called directly.  MT5Gateway keeps nothing between two       *)
(* trading calls, so GwSpec makes one call from every starting state, with  *)
(* wider inputs than the Service's calls have.                              *)

GwInit ==
    /\ RETCODES \in {build_retcode_map(mt5_retcodes),
                     build_retcode_map(mt5_retcodes_old)}
    /\ initialized = FALSE
    /\ mt5 = NotAttached
    /\ orders = << >> /\ deals = << >> /\ snaps = << >>
    /\ positions \in SUBSET PosUniverse
    /\ pendings \in SUBSET PendUniverse
    /\ nextTicket = FirstFreshTicket
    /\ last = NoCall
    /\ nCalls = 0 /\ nGot = 0

\* the state after a Gateway call g answered by shape sh
GwFinish(op, args, env, g, sh) ==
    LET term2 == Sent(Term, g.sent, sh)
    IN  /\ last' = [op |-> op, args |-> args, env |-> env, exc |-> g.exc,
                    ret |-> g.res, got |-> << >>, sent |-> g.sent,
                    tx |-> << >>]
        /\ positions' = term2.positions /\ pendings' = term2.pendings
        /\ nextTicket' = term2.nextTicket
        /\ nCalls' = nCalls + 1
        /\ UNCHANGED <<RETCODES, initialized, orders, deals, snaps, nGot, mt5>>

GwMarketOrder ==
    /\ nCalls = 0
    /\ \E symbol \in Symbols, side \in TradeSide, volume \in Volumes,
          d \in GwDists, a \in GwAbs, si \in GwSi, tick \in GwTicks,
          sh \in GwShapes :
        /\ (si = None \/ tick = None) => sh = <<None, NoError>>
        /\ si = None => tick = None
        /\ LET req == [OrderRequestDTO(symbol, side, volume) EXCEPT
                          !.sl = a[1], !.tp = a[2],
                          !.sl_dist = d[1], !.tp_dist = d[2]]
               env == Env(Term, si, tick, sh[1], sh[2])
           IN  GwFinish("market_order", req, env,
                        market_order(RETCODES, req, env), sh[1])

GwPendingOrder ==
    /\ nCalls = 0
    /\ \E symbol \in Symbols, side \in TradeSide, volume \in Volumes,
          kind \in GwKinds, price \in GwPrices, d \in GwDists, a \in GwAbs,
          si \in GwSi, sh \in GwShapes :
        /\ (si = None \/ kind = "market" \/ price = None) => sh = <<None, NoError>>
        /\ LET req == [OrderRequestDTO(symbol, side, volume) EXCEPT
                          !.kind = kind, !.price = price,
                          !.sl = a[1], !.tp = a[2],
                          !.sl_dist = d[1], !.tp_dist = d[2]]
               env == Env(Term, si, None, sh[1], sh[2])
           IN  GwFinish("pending_order", req, env,
                        pending_order(RETCODES, req, env), sh[1])

GwModifyPositionSltp ==
    /\ nCalls = 0
    /\ \E ticket \in TicketArgs, sh \in GwShapes :
        /\ ticket \in StaleTickets => sh = <<None, NoError>>
        /\ LET env == Env(Term, None, None, sh[1], sh[2])
           IN  GwFinish("modify_position_sltp",
                        [ticket |-> ticket, sl |-> 239800, tp |-> 240200], env,
                        modify_position_sltp(RETCODES, ticket, 239800, 240200, env),
                        sh[1])

GwClosePosition ==
    /\ nCalls = 0
    /\ \E ticket \in TicketArgs, tick \in GwTicks, sh \in GwShapes :
        /\ (ticket \in StaleTickets \/ tick = None) => sh = <<None, NoError>>
        /\ ticket \in StaleTickets => tick = None
        /\ LET env == Env(Term, None, tick, sh[1], sh[2])
           IN  GwFinish("close_position",
                        [ticket |-> ticket, deviation |-> 120], env,
                        close_position(RETCODES, ticket, 120, env), sh[1])

GwCancelOrder ==
    /\ nCalls = 0
    /\ \E ticket \in {o.ticket : o \in pendings} \cup StaleTickets,
          sh \in GwShapes :
        /\ ticket \in StaleTickets => sh = <<None, NoError>>
        /\ LET env == Env(Term, None, None, sh[1], sh[2])
           IN  GwFinish("cancel_order", [ticket |-> ticket], env,
                        cancel_order(RETCODES, ticket, env), sh[1])

GwNext ==
    \/ GwMarketOrder \/ GwPendingOrder \/ GwModifyPositionSltp
    \/ GwClosePosition \/ GwCancelOrder

GwSpec == GwInit /\ [][GwNext]_vars

---------------------------------------------------------------------------
(* The Gateway's session lifecycle: initialize and shutdown called in any   *)
(* order on one MT5Gateway.                                                 *)

\* the arguments of initialize: no credentials, a login without password and
\* server, or all three
LifeArgs ==
    {[login |-> FALSE, password |-> FALSE, server |-> FALSE],
     [login |-> TRUE, password |-> FALSE, server |-> FALSE],
     [login |-> TRUE, password |-> TRUE, server |-> TRUE]}

\* what the platform and the terminal answer during initialize; an answer is
\* an input only where initialize asks for it
LifeEnvs(args) ==
    {e \in [is64 : BOOLEAN, attach : BOOLEAN, exe_ok : BOOLEAN,
            path_init : BOOLEAN, login_ok : BOOLEAN] :
        /\ ~e.is64 => ~e.attach
        /\ (~e.is64 \/ e.attach) => ~e.exe_ok
        /\ ~e.exe_ok => ~e.path_init
        /\ (~HasCredentials(args) \/ (~e.attach /\ ~e.path_init)) => ~e.login_ok}

LifeInit ==
    /\ RETCODES = build_retcode_map(mt5_retcodes)
    /\ initialized = FALSE
    /\ mt5 = NotAttached
    /\ orders = << >> /\ deals = << >> /\ snaps = << >>
    /\ positions = {} /\ pendings = {}
    /\ nextTicket = FirstFreshTicket
    /\ last = NoCall
    /\ nCalls = 0 /\ nGot = 0

Initialize ==
    /\ nCalls < MaxLifeCalls
    /\ \E args \in LifeArgs : \E env \in LifeEnvs(args) :
        LET o == initialize(initialized, args, env)
        IN  /\ initialized' = o.flag
            /\ mt5' = [mt5 EXCEPT
                          !.attached = @ \/ o.attached,
                          !.inits = IF o.exc = None THEN @ + 1 ELSE @]
            /\ last' = [op |-> "initialize", args |-> args,
                        env |-> [initialized |-> initialized] @@ env,
                        exc |-> o.exc, ret |-> None, got |-> << >>,
                        sent |-> << >>, tx |-> << >>]
            /\ nCalls' = nCalls + 1
            /\ UNCHANGED <<RETCODES, orders, deals, snaps, positions, pendings,
                           nextTicket, nGot>>

Shutdown ==
    /\ nCalls < MaxLifeCalls
    /\ LET o == shutdown(initialized)
       IN  /\ initialized' = o.flag
           /\ mt5' = IF o.invoked
                     THEN [mt5 EXCEPT !.attached = FALSE, !.shutdowns = @ + 1]
                     ELSE mt5
           /\ last' = [op |-> "shutdown", args |-> << >>,
                       env |-> [initialized |-> initialized],
                       exc |-> None, ret |-> None, got |-> << >>,
                       sent |-> << >>, tx |-> << >>]
           /\ nCalls' = nCalls + 1
           /\ UNCHANGED <<RETCODES, orders, deals, snaps, positions, pendings,
                          nextTicket, nGot>>

LifeNext == Initialize \/ Shutdown

LifeSpec == LifeInit /\ [][LifeNext]_vars

---------------------------------------------------------------------------
(* Properties of the Service (checked under Spec). *)

SingleOps == {"buy", "sell", "place_pending", "modify_sltp", "close"}

\* the recorder failed: the exception that left the call is the store's
PersistenceFailed == last.exc # None /\ last.exc[1].cls = "IntegrityError"

\* C1: close_all(symbol) on N open positions of the symbol calls close_position
\* once per ticket and returns N results, whatever fails on the way.
C1_CloseAllReturnsEveryResult ==
    last.op = "close_all" =>
        /\ Len(last.args.tried) = Len(last.args.listing)
        /\ last.ret # None
        /\ Len(last.ret[1]) = Len(last.args.listing)

\* C2: once the Gateway has returned a result, a failing persistence write does
\* not hide it: the caller still receives that OrderResult (close_all: every
\* result obtained), and no request is sent a second time.
C2_PersistenceFailureNeverHidesResult ==
    (last.got # << >> /\ PersistenceFailed) =>
        /\ last.ret # None
        /\ IF last.op = "close_all" THEN last.ret[1] = last.got
           ELSE last.ret[1] = last.got[1]
        /\ Len(last.sent) = Len(last.got)

\* C3: every call that obtains an OrderResult produces exactly one order row
\* whose retcode, label and broker ticket are the result's, so the number of
\* order rows is the number of results obtained.
C3_OneOrderRowPerResult ==
    /\ Len(orders) = nGot
    /\ (last.op \in SingleOps /\ last.got # << >>) =>
          /\ Len(orders) > 0
          /\ LET row == orders[Len(orders)]
                 res == last.got[1]
             IN  /\ row.retcode = Some(res.retcode)
                 /\ row.retcode_label = Some(res.label)
                 /\ row.broker_order = res.order
                 /\ row.broker_deal = res.deal

\* C4: the order row of a result that carries a deal ticket never exists without
\* exactly one deal row paired with it, and no deal row exists without its
\* order row.
C4_DealRowPairedWithOrderRow ==
    /\ \A i \in 1..Len(orders) :
          Truthy(orders[i].broker_deal) =>
              Cardinality({j \in 1..Len(deals) :
                              deals[j].deal_ticket = orders[i].broker_deal}) = 1
    /\ \A j \in 1..Len(deals) :
          \E i \in 1..Len(orders) : orders[i].broker_deal = deals[j].deal_ticket

\* C5: the order store is append-only and every modify_sltp or close that
\* obtains a result adds one row to it: the rows written before stay as they
\* are, and one row is added.
C5_ModifyCloseAppendOneRow ==
    [][(last'.op \in {"modify_sltp", "close"} /\ last'.got # << >>) =>
          /\ Len(orders') = Len(orders) + 1
          /\ SubSeq(orders', 1, Len(orders)) = orders]_vars

\* the request of a place_pending call is invalid
InvalidPending(args) == args.kind = "market" \/ args.price = None
\* the failure InvalidRequest: the TradingError pending_order raises itself
InvalidRequest(exc) ==
    /\ exc # None
    /\ exc[1].cls = "TradingError"
    /\ exc[1].msg \in {"Use market_order() for OrderKind.MARKET",
                       "Pending order requires 'price'"}

\* C6 as stated: a pending order of kind MARKET, or without a price, fails with
\* InvalidRequest regardless of every other field, the symbol included; no
\* request is sent and no record is written.
C6_InvalidPendingAlwaysInvalidRequest ==
    [][(last'.op = "place_pending" /\ InvalidPending(last'.args)) =>
          /\ InvalidRequest(last'.exc)
          /\ last'.ret = None /\ last'.sent = << >>
          /\ orders' = orders /\ deals' = deals /\ snaps' = snaps]_vars

\* what the broker reported to the last positions query
LiveListing == IF last.env.listing = None THEN << >> ELSE last.env.listing[1]

\* C11: a positions(symbol) query returns the positions the broker reports,
\* those of the symbol that are open, and appends exactly one snapshot row per
\* returned position; when the broker reports none (an empty or a null listing)
\* it returns the empty sequence without failing and writes no row.
C11_PositionsSnapshotPerPosition ==
    [][last'.op = "positions" =>
          /\ last'.exc = None /\ last'.ret # None
          /\ LET out == last'.ret[1]
                 live == LiveListing'
             IN  /\ Len(out) = Len(live)
                 /\ \A i \in 1..Len(out) :
                       /\ out[i].ticket = live[i].ticket
                       /\ out[i].symbol = live[i].symbol
                       /\ out[i].side = live[i].type
                       /\ out[i].volume = live[i].volume
                 /\ last'.env.listing # None =>
                       {out[i].ticket : i \in 1..Len(out)} =
                           {p.ticket : p \in gw_positions(last'.args.symbol, positions)}
                 /\ Len(snaps') = Len(snaps) + Len(out)
                 /\ SubSeq(snaps', 1, Len(snaps)) = snaps
                 /\ \A i \in 1..Len(out) :
                       LET row == snaps'[Len(snaps) + i]
                       IN  /\ row.ticket = Some(out[i].ticket)
                           /\ row.symbol = Some(out[i].symbol)
                           /\ row.side = Some(out[i].side)
                           /\ row.volume = Some(out[i].volume)
                 /\ live = << >> => (out = << >> /\ snaps' = snaps)]_vars

\* C11 witness: a second positions query returned two positions and the store
\* holds the two rows of the first query and the two rows of this one.
C11_Witness ==
    /\ last.op = "positions" /\ last.ret # None
    /\ Len(last.ret[1]) = 2 /\ Len(snaps) = 4
    /\ snaps[3].ticket = Some(1) /\ snaps[4].ticket = Some(2)

\* the failure PositionNotFound / OrderNotFound: the TradingError the lookup
\* of the ticket raises
NotFound(exc, what) ==
    exc = Some(TradingError(what \o " not found"))

\* C12: modify_sltp and close on a ticket that matches no open position fail
\* with PositionNotFound, and cancel_order on a ticket that matches no pending
\* order fails with OrderNotFound; no request is sent to the broker and no row
\* is written.
C12_UnknownTicketFailsWithoutEffect ==
    [][/\ (/\ last'.op \in {"modify_sltp", "close"}
           /\ last'.args.ticket \notin {p.ticket : p \in positions}) =>
              /\ NotFound(last'.exc, "Position")
              /\ last'.ret = None /\ last'.sent = << >>
              /\ orders' = orders /\ deals' = deals /\ snaps' = snaps
       /\ (/\ last'.op = "cancel_order"
           /\ last'.args.ticket \notin {o.ticket : o \in pendings}) =>
              /\ NotFound(last'.exc, "Order")
              /\ last'.ret = None /\ last'.sent = << >>
              /\ orders' = orders /\ deals' = deals /\ snaps' = snaps]_vars

\* C12 witness: cancel_order(999) failed with OrderNotFound while another
\* pending order is listed and the store holds its row.
C12_Witness ==
    /\ last.op = "cancel_order" /\ last.args.ticket = 999
    /\ NotFound(last.exc, "Order")
    /\ pendings # {} /\ Len(orders) = 1

\* C13: no retries.  A buy, sell, place_pending, modify_sltp or close submits
\* at most one trade request, and close_all at most one per listed position
\* ticket, whatever the broker answers and whatever the recorder does.
C13_SingleAttemptPerCall ==
    /\ last.op \in SingleOps => Len(last.sent) <= 1
    /\ last.op = "close_all" =>
          /\ Len(last.sent) <= Len(last.args.listing)
          /\ \A i \in 1..Len(last.sent) :
                /\ \E k \in 1..Len(last.args.listing) :
                      last.args.listing[k].ticket = last.sent[i].position
                /\ \A j \in 1..Len(last.sent) :
                      last.sent[i].position = last.sent[j].position => i = j

\* C13 witness: a buy the broker rejected sent its one request.
C13_Witness ==
    /\ last.op = "buy" /\ last.got # << >>
    /\ last.got[1].retcode = mt5_retcodes.TRADE_RETCODE_REJECT
    /\ Len(last.sent) = 1

\* the connectivity or validation failure the inputs of call l of a single
\* use-case lead its Gateway operation to, or None: symbol not available, no
\* quote, invalid request, ticket not found
GatewayFailure(l) ==
    CASE l.op \in {"buy", "sell"} ->
           IF l.env.si = None THEN Some(SymbolNotAvailable)
           ELSE IF l.env.tick = None THEN Some(TradingError("No tick"))
           ELSE None
      [] l.op = "place_pending" ->
           IF l.env.si = None THEN Some(SymbolNotAvailable)
           ELSE IF l.args.kind = "market"
           THEN Some(TradingError("Use market_order() for OrderKind.MARKET"))
           ELSE IF l.args.price = None
           THEN Some(TradingError("Pending order requires 'price'"))
           ELSE None
      [] l.op = "modify_sltp" ->
           IF \A p \in l.env.positions : p.ticket # l.args.ticket
           THEN Some(TradingError("Position not found")) ELSE None
      [] l.op = "close" ->
           IF \A p \in l.env.positions : p.ticket # l.args.ticket
           THEN Some(TradingError("Position not found"))
           ELSE IF l.env.tick = None THEN Some(AttributeError)
           ELSE None
      [] OTHER -> None

\* the failure of the close_position that ended close_all call l: the turn of
\* the last ticket tried tells it
CloseAllFailure(l) ==
    LET turn == l.env[l.args.tried[Len(l.args.tried)]]
    IN  IF turn.gone THEN Some(TradingError("Position not found"))
        ELSE IF turn.tick = None THEN Some(AttributeError)
        ELSE None

\* C14: when the Gateway operation of a use-case fails for connectivity or
\* validation, that failure reaches the Service's caller unchanged and the
\* use-case stops there: the failed attempt has sent no request and written no
\* order, deal or snapshot row, and the terminal's positions and pending
\* orders are as they were.  In close_all
\* the requests sent and the rows written are those of the tickets closed
\* before the failing one.
C14_GatewayFailurePropagates ==
    [][/\ (last'.op \in SingleOps /\ GatewayFailure(last') # None) =>
              /\ last'.exc = GatewayFailure(last')
              /\ last'.ret = None /\ last'.got = << >> /\ last'.sent = << >>
              /\ orders' = orders /\ deals' = deals /\ snaps' = snaps
              /\ positions' = positions /\ pendings' = pendings
       /\ (/\ last'.op = "close_all" /\ last'.exc # None
           /\ last'.exc[1].cls # "IntegrityError") =>
              /\ last'.exc = CloseAllFailure(last')
              /\ last'.ret = None
              /\ Len(last'.sent) = Len(last'.args.tried) - 1
              /\ Len(last'.got) = Len(last'.sent)
              /\ Len(orders') = Len(orders) + Len(last'.got)
              /\ deals' = deals /\ snaps' = snaps]_vars

\* C14 witness: after an earlier call wrote an order row, a buy on a symbol
\* the terminal does not offer failed with SymbolNotAvailable.
C14_Witness ==
    /\ last.op = "buy" /\ last.exc = Some(SymbolNotAvailable)
    /\ last.sent = << >> /\ Len(orders) = 1

\* the number of entries ev of a session log
Count(log, ev) == Cardinality({i \in 1..Len(log) : log[i] = ev})

\* C15: every recorder call of a use-case runs in a session of its own, which
\* is begun, flushed, then either committed or rolled back, and closed before
\* the next one begins and before the use-case ends.  A committed session has
\* persisted its one row; a rolled-back session has persisted nothing, its
\* error leaves the use-case, and no recorder call follows it; the rows written
\* before stay as they are.
C15_OneTransactionPerRecorderCall ==
    [][LET log == last'.tx
           n == Len(log) \div 4
       IN  /\ Len(log) = 4 * n
           /\ \A k \in 0..(n - 1) :
                 /\ log[4 * k + 1] = "begin"
                 /\ log[4 * k + 2] = "flush"
                 /\ log[4 * k + 3] \in {"commit", "rollback"}
                 /\ log[4 * k + 4] = "close"
                 /\ log[4 * k + 3] = "rollback" =>
                       /\ k = n - 1
                       /\ last'.exc # None
                       /\ last'.exc[1].cls = "IntegrityError"
           /\ Len(orders') + Len(deals') + Len(snaps') =
                  Len(orders) + Len(deals) + Len(snaps) + Count(log, "commit")
           /\ SubSeq(orders', 1, Len(orders)) = orders
           /\ SubSeq(deals', 1, Len(deals)) = deals
           /\ SubSeq(snaps', 1, Len(snaps)) = snaps]_vars

\* C15 witness: a buy whose order row was committed in one session and whose
\* deal row was rolled back in the next.
C15_Witness ==
    /\ last.op = "buy"
    /\ last.tx = <<"begin", "flush", "commit", "close",
                   "begin", "flush", "rollback", "close">>
    /\ Len(orders) = 1 /\ Len(deals) = 0

\* the last call wrote its order row: its first session was committed
OrderRowWritten ==
    /\ last.op \in SingleOps /\ last.got # << >>
    /\ Len(last.tx) >= 4 /\ last.tx[3] = "commit"

\* C16: the order row of an attempt carries the request that was sent.  For a
\* buy or sell placed with sl_dist / tp_dist the row's sl and tp are the
\* resolved absolute stops of the request; for a modify or close the row
\* carries the request's symbol and, for a close, its side and volume, for a
\* modify its sl and tp.
C16_OrderRowCarriesRequest ==
    OrderRowWritten =>
        LET row == orders[Len(orders)]
            request == last.sent[1]
        IN  /\ (last.op \in {"buy", "sell"} /\ last.args.sl_dist # None) =>
                  row.sl = Some(request.sl)
            /\ (last.op \in {"buy", "sell"} /\ last.args.tp_dist # None) =>
                  row.tp = Some(request.tp)
            /\ last.op \in {"modify_sltp", "close"} =>
                  row.symbol = Some(request.symbol)
            /\ last.op = "modify_sltp" =>
                  /\ row.sl = Some(request.sl) /\ row.tp = Some(request.tp)
            /\ last.op = "close" =>
                  /\ row.side = Some(IF request.type = "ORDER_TYPE_BUY"
                                     THEN "buy" ELSE "sell")
                  /\ row.volume = Some(request.volume)

---------------------------------------------------------------------------
(* Properties of the Gateway (checked under GwSpec). *)

\* the request the last call sent, its OrderRequestDTO, and the terminal's
\* answers to it
TheRequest == last.sent[1]
TheTick == last.env.tick[1]
TheDigits == last.env.si[1].digits

\* the stop derived from distance d: below base for a buy's stop-loss and a
\* sell's take-profit (down), above it otherwise
Derived(base, d, down, digits) ==
    round(IF down THEN base - d ELSE base + d, digits)

\* C7 as stated: a market order with sl_dist = d is sent with sl = ask - d for a
\* BUY and ask + d for a SELL, with tp_dist = d with tp = ask + d for a BUY and
\* ask - d for a SELL, each rounded to the instrument's digits.
C7_StopsDerivedFromAsk ==
    (last.op = "market_order" /\ last.sent # << >>) =>
        LET req == last.args
            buying == req.side = "buy"
        IN  /\ req.sl_dist # None =>
                  TheRequest.sl =
                      Derived(TheTick.ask, req.sl_dist[1], buying, TheDigits)
            /\ req.tp_dist # None =>
                  TheRequest.tp =
                      Derived(TheTick.ask, req.tp_dist[1], ~buying, TheDigits)

\* C7 amended: the stops are derived from the price the order is sent at, the
\* ask for a BUY and the bid for a SELL: sl = ask - d (BUY), bid + d (SELL);
\* tp = ask + d (BUY), bid - d (SELL), each rounded to the instrument's digits.
\* BUY at ask 2400.00 with sl_dist = tp_dist = 2.0 and 2 digits is sent with
\* sl 2398.00 and tp 2402.00.
C7_StopsDerivedFromSendPrice ==
    (last.op = "market_order" /\ last.sent # << >>) =>
        LET req == last.args
            buying == req.side = "buy"
            base == IF buying THEN TheTick.ask ELSE TheTick.bid
        IN  /\ TheRequest.price = base
            /\ req.sl_dist # None =>
                  TheRequest.sl = Derived(base, req.sl_dist[1], buying, TheDigits)
            /\ req.tp_dist # None =>
                  TheRequest.tp = Derived(base, req.tp_dist[1], ~buying, TheDigits)
            /\ (buying /\ TheTick.ask = 240000 /\ TheDigits = 2
                /\ req.sl_dist = Some(200) /\ req.tp_dist = Some(200)) =>
                  (TheRequest.sl = 239800 /\ TheRequest.tp = 240200)

\* C7 witness: a SELL with bid 1.04 below ask 1.17, sl_dist 0.07 and tp_dist
\* 2.00 on a 1-digit instrument was sent with sl 1.11 rounded to 1.10 and
\* tp -0.96 rounded to -1.00.
C7_Witness ==
    /\ last.op = "market_order" /\ last.sent # << >>
    /\ last.args.side = "sell"
    /\ TheTick = [bid |-> 104, ask |-> 117] /\ TheDigits = 1
    /\ last.args.sl_dist = Some(7) /\ last.args.tp_dist = Some(200)
    /\ TheRequest.sl = 110 /\ TheRequest.tp = -100

\* C8: every request sent, market or pending, that was given sl_dist / tp_dist
\* carries the stop derived from the distance (from the price of the request),
\* also when an absolute sl / tp was given too; the distance is never ignored.
C8_DistanceAlwaysConverted ==
    (last.op \in {"market_order", "pending_order"} /\ last.sent # << >>) =>
        LET req == last.args
            buying == req.side = "buy"
        IN  /\ req.sl_dist # None =>
                  TheRequest.sl =
                      Derived(TheRequest.price, req.sl_dist[1], buying, TheDigits)
            /\ req.tp_dist # None =>
                  TheRequest.tp =
                      Derived(TheRequest.price, req.tp_dist[1], ~buying, TheDigits)

\* C9: when order_send answers None, the operation (market order, pending
\* order, modify, close, cancel) returns, without raising, the OrderResult with
\* retcode -1, label "NO_RESULT", no order, no deal, no price, and the
\* session's last error in last_error.
C9_AbsentResponseIsNoResult ==
    (last.sent # << >> /\ last.env.ans = None) =>
        /\ last.exc = None
        /\ last.ret # None
        /\ last.ret[1].retcode = -1
        /\ last.ret[1].label = "NO_RESULT"
        /\ last.ret[1].order = None
        /\ last.ret[1].deal = None
        /\ last.ret[1].price = None
        /\ last.ret[1].last_error = last.env.last_error

\* C9 witness: cancel_order of a listed pending order got no answer while the
\* session's last error was "No IPC connection", and returned it.
C9_Witness ==
    /\ last.op = "cancel_order" /\ last.sent # << >>
    /\ last.env.ans = None /\ last.env.last_error = NoIPC
    /\ last.ret # None /\ last.ret[1].last_error = NoIPC

\* the label of a code: the fixed label of a code of the table, "UNKNOWN(<code>)"
\* of any other
LabelOf(code) ==
    IF code \in DOMAIN RETCODES THEN RETCODES[code]
    ELSE "UNKNOWN(" \o ToString(code) \o ")"

\* the table holds, for every constant of the SDK it knows, the label paired
\* with the constant, and nothing else
TableAsDocumented ==
    /\ \A i \in 1..Len(pairs) :
          LET code == mt5_retcodes[pairs[i][1]]
          IN  code \in DOMAIN RETCODES => RETCODES[code] = pairs[i][2]
    /\ DOMAIN RETCODES \subseteq {mt5_retcodes[n] : n \in DOMAIN mt5_retcodes}
    /\ RETCODES[10009] = "DONE"

\* every OrderResult built from a present answer has the answer's retcode and
\* the label of that retcode
LabelledByRetcode ==
    (last.ret # None /\ last.env.ans # None) =>
        /\ last.ret[1].retcode = last.env.ans[1].retcode
        /\ last.ret[1].label = LabelOf(last.ret[1].retcode)
        /\ last.ret[1].retcode = 10030 => last.ret[1].label = "UNKNOWN(10030)"

\* C10: label(code) is the fixed label of a recognized code and
\* "UNKNOWN(<code>)" of any other integer; every OrderResult built from a
\* present answer carries its retcode and the label of it; no operation
\* changes the table.
C10_LabelTotalAndTableFixed ==
    /\ [](TableAsDocumented /\ LabelledByRetcode)
    /\ [][RETCODES' = RETCODES]_vars

\* C10 witness: on an SDK without TRADE_RETCODE_FROZEN the answer 10026 came
\* back labelled "UNKNOWN(10026)".
C10_Witness ==
    /\ last.ret # None /\ last.env.ans # None
    /\ last.ret[1].retcode = 10026
    /\ last.ret[1].label = "UNKNOWN(10026)"

---------------------------------------------------------------------------
(* Properties of the session lifecycle (checked under LifeSpec). *)

\* the initialize call l fully succeeds: the platform is 64-bit, the terminal
\* is attached directly or through the path, and the login, when credentials
\* are given, is accepted
FullySucceeds(l) ==
    /\ l.env.is64
    /\ l.env.attach \/ (l.env.exe_ok /\ l.env.path_init)
    /\ HasCredentials(l.args) => l.env.login_ok

\* C17: the initialized flag is set only by an initialize that fully succeeds,
\* and a failed initialize raises and leaves the flag as it was; shutdown
\* invokes the terminal's shutdown exactly when the flag is set and then the
\* flag is clear, and on a gateway whose flag is clear it does nothing; so the
\* terminal's shutdown is invoked at most once per successful initialize.
C17_SessionLifecycle ==
    /\ [][/\ (initialized' /\ ~initialized) =>
                (last'.op = "initialize" /\ FullySucceeds(last'))
          /\ last'.op = "initialize" =>
                IF FullySucceeds(last')
                THEN last'.exc = None /\ initialized'
                ELSE /\ last'.exc # None /\ initialized' = initialized
                     /\ mt5'.shutdowns = mt5.shutdowns
          /\ last'.op = "shutdown" =>
                /\ ~initialized'
                /\ mt5'.shutdowns = mt5.shutdowns + (IF initialized THEN 1 ELSE 0)
                /\ ~initialized => mt5' = mt5]_vars
    /\ [](mt5.shutdowns <= mt5.inits)

\* C17 witness: after one successful initialize and a shutdown, a second
\* shutdown found the flag clear and the terminal's shutdown has been invoked
\* once.
C17_Witness ==
    /\ last.op = "shutdown" /\ ~last.env.initialized
    /\ nCalls = 3 /\ mt5.inits = 1 /\ mt5.shutdowns = 1 /\ ~initialized

=============================================================================
